---------------------------- MODULE Spec2Model ----------------------------
(***************************************************************************)
(* Atlas data fusion and compound-risk scoring pipeline                    *)
(* (src/src/analysis/final_atlas_fusion_analysis.py, AtlasFusionPipeline). *)
(*                                                                         *)
(* A DataFrame is a sequence of rows; a row is a function from column      *)
(* names to cell values.  Numeric cells are exact rationals <<n, d>> in    *)
(* lowest terms with d > 0; a missing cell (NaN) is <<0, 0>>.              *)
(***************************************************************************)
EXTENDS Integers, Sequences, FiniteSets

VARIABLES pc, df, source, processed, master, missing_poverty_mask, risk_df,
          raw_files, datasets, error, written, country_agg, region_agg,
          ph_data, ph_risk, risk_index, risk_classes

vars == <<pc, df, source, processed, master, missing_poverty_mask, risk_df,
          raw_files, datasets, error, written, country_agg, region_agg,
          ph_data, ph_risk, risk_index, risk_classes>>

\* the variables of a whole run: the files of data/raw, the loaded datasets,
\* the exception that ended the run, the files written to data/processed and
\* the two aggregated tables
run_vars == <<raw_files, datasets, error, written, country_agg, region_agg>>

NoError == [type |-> "none", source |-> "none", columns |-> {}]

\* the run variables outside a run
NoRun ==
    /\ raw_files = <<>>
    /\ datasets = <<>>
    /\ error = NoError
    /\ written = <<>>
    /\ country_agg = <<>>
    /\ region_agg = <<>>

\* the rasters of the soil health analyzer (soil_health_analysis.py): a
\* raster is the sequence of its pixels
soil_vars == <<ph_data, ph_risk, risk_index, risk_classes>>

\* the rasters outside a soil analysis
NoSoil ==
    /\ ph_data = <<>>
    /\ ph_risk = <<>>
    /\ risk_index = <<>>
    /\ risk_classes = <<>>

(***************************************************************************)
(* Bounds of the model.                                                    *)
(***************************************************************************)
\* hazard indicator cells range over NaN and 0..MaxVal
MaxVal == 2

\* a raw source file has at most MaxRawRows rows
MaxRawRows == 3

\* a processed source table has at most MaxMult rows per administrative key
MaxMult == 2

\* the master table handed to the imputation has at most MaxMasterRows rows
MaxMasterRows == 4

\* rows of a master table handed to the scorer
MaxScoreRows == 2

\* rows of a scored table handed to the aggregator
MaxAggRows == 2

\* pixels of a raster
MaxPixels == 2

(***************************************************************************)
(* Numeric cells: rationals and NaN.                                       *)
(***************************************************************************)
NaN == <<0, 0>>

IsNaN(x) == x[2] = 0

Abs(n) == IF n < 0 THEN -n ELSE n

RECURSIVE GCD(_, _)
GCD(a, b) == IF b = 0 THEN a ELSE GCD(b, a % b)

Rat(n, d) ==
    IF d = 0 THEN NaN
    ELSE LET s == IF d < 0 THEN -1 ELSE 1
             g == GCD(Abs(n), Abs(d))
         IN  <<(s * n) \div g, (s * d) \div g>>

Int2Rat(i) == <<i, 1>>

Zero == <<0, 1>>

One == <<1, 1>>

Half == <<1, 2>>

\* arithmetic propagates NaN, as numpy does; x / 0 is modelled as NaN
RAdd(x, y) == IF IsNaN(x) \/ IsNaN(y) THEN NaN ELSE Rat(x[1] * y[2] + y[1] * x[2], x[2] * y[2])

RSub(x, y) == IF IsNaN(x) \/ IsNaN(y) THEN NaN ELSE Rat(x[1] * y[2] - y[1] * x[2], x[2] * y[2])

RMul(x, y) == IF IsNaN(x) \/ IsNaN(y) THEN NaN ELSE Rat(x[1] * y[1], x[2] * y[2])

RDiv(x, y) == IF IsNaN(x) \/ IsNaN(y) THEN NaN ELSE Rat(x[1] * y[2], x[2] * y[1])

\* comparisons with NaN are false, as in IEEE arithmetic
RLt(x, y) == ~IsNaN(x) /\ ~IsNaN(y) /\ x[1] * y[2] < y[1] * x[2]

RLe(x, y) == ~IsNaN(x) /\ ~IsNaN(y) /\ x[1] * y[2] <= y[1] * x[2]

(***************************************************************************)
(* Series (one column of a DataFrame: a sequence of cells).                *)
(***************************************************************************)
notna(s) == {i \in DOMAIN s : ~IsNaN(s[i])}

\* Series.min() / Series.max(): NaN is skipped; NaN when nothing is present
SeriesMin(s) ==
    IF notna(s) = {} THEN NaN
    ELSE LET i == CHOOSE i \in notna(s) : \A j \in notna(s) : RLe(s[i], s[j]) IN s[i]

SeriesMax(s) ==
    IF notna(s) = {} THEN NaN
    ELSE LET i == CHOOSE i \in notna(s) : \A j \in notna(s) : RLe(s[j], s[i]) IN s[i]

RECURSIVE SumOver(_, _)
SumOver(s, I) ==
    IF I = {} THEN Zero
    ELSE LET i == CHOOSE i \in I : TRUE IN RAdd(s[i], SumOver(s, I \ {i}))

\* Series.mean() / DataFrame.mean(axis=1, skipna=True): mean of the present cells
SeriesMean(s) ==
    IF notna(s) = {} THEN NaN
    ELSE RDiv(SumOver(s, notna(s)), Int2Rat(Cardinality(notna(s))))

\* k-th smallest present cell (1-based, with multiplicity)
KthSmallest(s, k) ==
    LET P == notna(s)
        i == CHOOSE i \in P :
                /\ Cardinality({j \in P : RLt(s[j], s[i])}) < k
                /\ k <= Cardinality({j \in P : RLe(s[j], s[i])})
    IN  s[i]

\* Series.median(): NaN is skipped; the mean of the two middle cells for an even count
SeriesMedian(s) ==
    LET n == Cardinality(notna(s))
    IN  IF n = 0 THEN NaN
        ELSE IF n % 2 = 1 THEN KthSmallest(s, (n + 1) \div 2)
        ELSE RDiv(RAdd(KthSmallest(s, n \div 2), KthSmallest(s, n \div 2 + 1)), Int2Rat(2))

(***************************************************************************)
(* DataFrames.                                                             *)
(***************************************************************************)
Columns(t) == IF t = <<>> THEN {} ELSE DOMAIN t[1]

Col(t, c) == [i \in DOMAIN t |-> t[i][c]]

Put(row, c, v) == [x \in (DOMAIN row) \cup {c} |-> IF x = c THEN v ELSE row[x]]

\* t[c] = s
AssignCol(t, c, s) == [i \in DOMAIN t |-> Put(t[i], c, s[i])]


(***************************************************************************)
(* Risk scorer: calculate_risk_scores and its helpers.                     *)
(***************************************************************************)
\* Series.clip(0, 1); NaN stays NaN
clip01(x) == IF IsNaN(x) THEN NaN ELSE IF RLt(x, Zero) THEN Zero ELSE IF RLt(One, x) THEN One ELSE x

\* _normalize_to_risk dividing by the maximum only
normalize_to_risk_by_max(series) ==
    IF notna(series) = {} THEN series
    ELSE LET max_val == SeriesMax(series)
         IN  IF max_val = SeriesMin(series)
             THEN [i \in DOMAIN series |-> Half]
             ELSE [i \in DOMAIN series |-> clip01(RDiv(series[i], max_val))]

\* _normalize_to_risk: min-max scaling of a series to the 0-1 risk scale
normalize_to_risk(series) ==
    IF notna(series) = {} THEN series
    ELSE LET min_val == SeriesMin(series)
             max_val == SeriesMax(series)
         IN  IF max_val = min_val
             THEN [i \in DOMAIN series |-> Half]
             ELSE [i \in DOMAIN series |->
                      clip01(RDiv(RSub(series[i], min_val), RSub(max_val, min_val)))]

RiskLabels == <<"Low", "Moderate", "High", "Very High">>

RiskBins == <<Zero, Rat(1, 4), Rat(1, 2), Rat(3, 4), One>>

\* pd.cut(x, bins=[0, 0.25, 0.5, 0.75, 1.0], labels=..., include_lowest=True):
\* right-closed intervals (b[k], b[k+1]], the first one also closed on the left;
\* NaN and values outside [0, 1] get no category ("NaN")
cut(x) ==
    IF IsNaN(x) THEN "NaN"
    ELSE IF x = RiskBins[1] THEN RiskLabels[1]
    ELSE IF \E k \in DOMAIN RiskLabels : RLt(RiskBins[k], x) /\ RLe(x, RiskBins[k + 1])
         THEN LET k == CHOOSE k \in DOMAIN RiskLabels : RLt(RiskBins[k], x) /\ RLe(x, RiskBins[k + 1])
              IN  RiskLabels[k]
         ELSE "NaN"

\* The columns calculate_risk_scores adds, each as a series computed from the
\* table t it is given.  fuse_all_datasets always returns the columns
\* ndws_future_days, tai_erosion_proxy and poverty_headcount_ratio, so the
\* 'if ... in result.columns' tests on them are taken.

\* 1. result['hazard_water_stress'] = _normalize_to_risk(result['ndws_future_days'])
hazard_water_stress(t) == normalize_to_risk(Col(t, "ndws_future_days"))

\* result['hazard_erosion_risk'] = _normalize_to_risk(result['tai_erosion_proxy'])
hazard_erosion_risk(t) == normalize_to_risk(Col(t, "tai_erosion_proxy"))

\* the hazard composite as the sum of the hazard_ columns instead of their mean
hazard_score_composite_sum(t) ==
    [i \in DOMAIN t |->
        LET cols == <<hazard_water_stress(t)[i], hazard_erosion_risk(t)[i]>> \o
                    (IF "hazard_score_composite" \in Columns(t)
                     THEN <<t[i]["hazard_score_composite"]>> ELSE <<>>)
        IN  IF notna(cols) = {} THEN NaN ELSE SumOver(cols, notna(cols))]

\* 2. hazard_cols: the columns of result that start with 'hazard_' (a
\* hazard_score_composite column is among them when t already has one);
\* result[hazard_cols].mean(axis=1, skipna=True)
hazard_score_composite(t) ==
    [i \in DOMAIN t |->
        SeriesMean(<<hazard_water_stress(t)[i], hazard_erosion_risk(t)[i]>> \o
                   (IF "hazard_score_composite" \in Columns(t)
                    THEN <<t[i]["hazard_score_composite"]>> ELSE <<>>))]

\* 3. result['social_vulnerability'] = result['poverty_headcount_ratio']
social_vulnerability(t) == Col(t, "poverty_headcount_ratio")

\* 4. result['environmental_vulnerability'] = result['hazard_erosion_risk']
environmental_vulnerability(t) == hazard_erosion_risk(t)

\* the vulnerability composite with mean(axis=1, skipna=False)
vulnerability_composite_no_skipna(t) ==
    [i \in DOMAIN t |->
        RDiv(RAdd(social_vulnerability(t)[i], environmental_vulnerability(t)[i]), Int2Rat(2))]

\* 5. result[vuln_cols].mean(axis=1, skipna=True)
vulnerability_composite(t) ==
    [i \in DOMAIN t |->
        SeriesMean(<<social_vulnerability(t)[i], environmental_vulnerability(t)[i]>>)]

\* 6. result['hazard_score_composite'] * result['vulnerability_composite']
compound_risk_score(t) ==
    [i \in DOMAIN t |-> RMul(hazard_score_composite(t)[i], vulnerability_composite(t)[i])]

\* 7. pd.cut(result['compound_risk_score'], ...)
risk_category(t) == [i \in DOMAIN t |-> cut(compound_risk_score(t)[i])]

ScoreColumns ==
    {"hazard_water_stress", "hazard_erosion_risk", "hazard_score_composite",
     "social_vulnerability", "environmental_vulnerability", "vulnerability_composite",
     "compound_risk_score", "risk_category"}

\* result = df.copy() with the eight columns assigned
calculate_risk_scores(t) ==
    [i \in DOMAIN t |->
        [c \in Columns(t) \cup ScoreColumns |->
            CASE c = "hazard_water_stress" -> hazard_water_stress(t)[i]
              [] c = "hazard_erosion_risk" -> hazard_erosion_risk(t)[i]
              [] c = "hazard_score_composite" -> hazard_score_composite(t)[i]
              [] c = "social_vulnerability" -> social_vulnerability(t)[i]
              [] c = "environmental_vulnerability" -> environmental_vulnerability(t)[i]
              [] c = "vulnerability_composite" -> vulnerability_composite(t)[i]
              [] c = "compound_risk_score" -> compound_risk_score(t)[i]
              [] c = "risk_category" -> risk_category(t)[i]
              [] OTHER -> t[i][c]]]

(***************************************************************************)
(* Geographic keys and the tables the scorer is run on.                    *)
(***************************************************************************)
GeoKey(c, r, s) == [country |-> c, region |-> r, sub_region |-> s]

GeoKeys ==
    <<GeoKey("A", "r1", "s1"), GeoKey("A", "r1", "s2"), GeoKey("B", "r2", "s3"),
      GeoKey("B", "r2", "s4")>>

\* cells of the NDWS value column
NdwsVals == {NaN} \cup {Int2Rat(i) : i \in 0..MaxVal}

\* cells of the TAI value column
TaiVals == {NaN, Zero, One}

\* poverty headcount ratios: fractions, and a percentage-format value
PovertyVals == {Rat(1, 4), One, Int2Rat(50)}

MasterRow(k, tai, ndws, vop, pop, pov, imputed) ==
    [country |-> k.country, region |-> k.region, sub_region |-> k.sub_region,
     tai_erosion_proxy |-> tai, ndws_future_days |-> ndws, vop_crops_usd |-> vop,
     population_total |-> pop, poverty_headcount_ratio |-> pov, poverty_imputed |-> imputed]

\* poverty columns fuse_all_datasets can return: complete, or missing in every row
\* (the imputation fills every gap unless no value is present at all)
FusedPovertyColumns(n) == [1..n -> PovertyVals] \cup {[i \in 1..n |-> NaN]}

EmptyProcessed == [ndws |-> <<>>, erosion |-> <<>>, population |-> <<>>, vop |-> <<>>, poverty |-> <<>>]

\* the argument of calculate_risk_scores: a master table fuse_all_datasets can return
\* (non-empty, see run_complete_analysis)
ScoreInit ==
    /\ pc = "fused"
    /\ NoRun
    /\ NoSoil
    /\ \E n \in 1..MaxScoreRows :
         \E tai \in [1..n -> TaiVals], ndws \in [1..n -> NdwsVals], pov \in FusedPovertyColumns(n) :
            master = [i \in 1..n |->
                         MasterRow(GeoKeys[i], tai[i], ndws[i], One, One, pov[i], IsNaN(pov[i]))]
    /\ risk_df = <<>>
    /\ df = <<>>
    /\ source = "none"
    /\ processed = EmptyProcessed
    /\ missing_poverty_mask = <<>>

\* run_complete_analysis, step 3: risk_df = self.calculate_risk_scores(master_df)
CalculateRiskScores ==
    /\ pc = "fused"
    /\ Len(master) > 0
    /\ risk_df' = calculate_risk_scores(master)
    /\ pc' = "scored"
    /\ UNCHANGED run_vars /\ UNCHANGED soil_vars
    /\ UNCHANGED <<df, source, processed, master, missing_poverty_mask>>

ScoreNext == CalculateRiskScores

SpecScore == ScoreInit /\ [][ScoreNext]_vars

(***************************************************************************)
(* Per-source processors.  A raw Atlas table has the columns admin0_name,  *)
(* admin1_name, admin2_name, value and the dimension columns of its source.*)
(***************************************************************************)
\* a missing administrative name
NA == "NaN"

\* raw administrative keys: two complete ones and one whose admin1_name is missing
RawKeys == {GeoKeys[1], GeoKeys[3], GeoKey("B", NA, "s4")}

\* value cells of a raw file
RawVals == {NaN, One}

\* value cells of the VOP file
VopVals == {NaN, One, Int2Rat(2)}

NdwsDims ==
    {[scenario |-> "ssp245", timeframe |-> "2041_2060"],
     [scenario |-> "ssp245", timeframe |-> "2021_2040"],
     [scenario |-> "ssp585", timeframe |-> "2041_2060"]}

ErosionDims ==
    {[scenario |-> "historic", timeframe |-> "historic", hazard |-> "TAI"],
     [scenario |-> "historic", timeframe |-> "historic", hazard |-> "NDWS"],
     [scenario |-> "ssp245", timeframe |-> "2041_2060", hazard |-> "TAI"]}

PopulationScenarios == {"ssp245", "ssp585", "historic"}

PovertyScenarios == {"baseline", "historic", "ssp245", "ssp585"}

Crops == {"maize", "rice"}

NdwsRows ==
    {[admin0_name |-> k.country, admin1_name |-> k.region, admin2_name |-> k.sub_region,
      scenario |-> d.scenario, timeframe |-> d.timeframe, value |-> v] :
        k \in RawKeys, d \in NdwsDims, v \in RawVals}

ErosionRows ==
    {[admin0_name |-> k.country, admin1_name |-> k.region, admin2_name |-> k.sub_region,
      scenario |-> d.scenario, timeframe |-> d.timeframe, hazard |-> d.hazard, value |-> v] :
        k \in RawKeys, d \in ErosionDims, v \in RawVals}

ScenarioRows(scenarios) ==
    {[admin0_name |-> k.country, admin1_name |-> k.region, admin2_name |-> k.sub_region,
      scenario |-> sc, value |-> v] :
        k \in RawKeys, sc \in scenarios, v \in RawVals}

\* a population or poverty file without a scenario column
PlainRows ==
    {[admin0_name |-> k.country, admin1_name |-> k.region, admin2_name |-> k.sub_region,
      value |-> v] :
        k \in RawKeys, v \in RawVals}

VopRows ==
    {[admin0_name |-> k.country, admin1_name |-> k.region, admin2_name |-> k.sub_region,
      crop |-> c, value |-> v] :
        k \in RawKeys, c \in Crops, v \in VopVals}

Sources == {"ndws", "erosion", "population", "vop", "poverty"}

\* the row sets a file of the given source is drawn from
RawRowSets(src) ==
    CASE src = "ndws" -> {NdwsRows}
      [] src = "erosion" -> {ErosionRows}
      [] src = "population" -> {ScenarioRows(PopulationScenarios), PlainRows}
      [] src = "vop" -> {VopRows}
      [] src = "poverty" -> {ScenarioRows(PovertyScenarios), PlainRows}

\* df[admin_cols + ['value']].rename(columns={'value': name}) followed by
\* standardize_admin_columns
SelectAndRename(t, name) ==
    [i \in DOMAIN t |->
        [x \in {"country", "region", "sub_region", name} |->
            CASE x = "country" -> t[i]["admin0_name"]
              [] x = "region" -> t[i]["admin1_name"]
              [] x = "sub_region" -> t[i]["admin2_name"]
              [] OTHER -> t[i]["value"]]]

\* df['scenario'].unique(): the scenarios in first-seen order
RECURSIVE Unique(_)
Unique(s) ==
    IF s = <<>> THEN <<>>
    ELSE LET init == Unique(SubSeq(s, 1, Len(s) - 1))
             last == s[Len(s)]
         IN  IF \E i \in DOMAIN init : init[i] = last THEN init ELSE Append(init, last)

Range(s) == {s[i] : i \in DOMAIN s}

CountOf(t, sc) == Cardinality({i \in DOMAIN t : t[i]["scenario"] = sc})

\* the candidates for df['scenario'].value_counts().index[0]: the scenarios with
\* the largest count (the order among equal counts is left to the sort)
MostCommonScenarios(t) ==
    {sc \in Range(Col(t, "scenario")) :
        \A other \in Range(Col(t, "scenario")) : CountOf(t, other) <= CountOf(t, sc)}

process_hazard_ndws(t) ==
    LET Keep(r) == r["scenario"] = "ssp245" /\ r["timeframe"] = "2041_2060"
    IN  SelectAndRename(SelectSeq(t, Keep), "ndws_future_days")

process_hazard_erosion(t) ==
    LET Keep(r) == r["scenario"] = "historic" /\ r["timeframe"] = "historic" /\ r["hazard"] = "TAI"
    IN  SelectAndRename(SelectSeq(t, Keep), "tai_erosion_proxy")

\* process_exposure_population once the scenario to keep is known
\* ("none": the file has no scenario column)
population_for(t, scenario) ==
    LET Keep(r) == scenario = "none" \/ r["scenario"] = scenario
    IN  SelectAndRename(SelectSeq(t, Keep), "population_total")

\* scenario_data['value'].notna().sum() / len(scenario_data)
Completeness(t, sc) ==
    LET Keep(r) == r["scenario"] = sc
        rows == SelectSeq(t, Keep)
    IN  Rat(Cardinality(notna(Col(rows, "value"))), Len(rows))

\* max(...) returning the last of the scenarios whose completeness is the largest
BestScenario_last(t) ==
    LET scenarios == Unique(Col(t, "scenario"))
        i == CHOOSE i \in DOMAIN scenarios :
                /\ \A j \in DOMAIN scenarios :
                      RLe(Completeness(t, scenarios[j]), Completeness(t, scenarios[i]))
                /\ \A j \in (i + 1)..Len(scenarios) :
                      RLt(Completeness(t, scenarios[j]), Completeness(t, scenarios[i]))
    IN  scenarios[i]

\* max(scenario_completeness.keys(), key=...): the first scenario, in first-seen
\* order, whose completeness is the largest
BestScenario(t) ==
    LET scenarios == Unique(Col(t, "scenario"))
        i == CHOOSE i \in DOMAIN scenarios :
                /\ \A j \in DOMAIN scenarios :
                      RLe(Completeness(t, scenarios[j]), Completeness(t, scenarios[i]))
                /\ \A j \in 1..(i - 1) :
                      RLt(Completeness(t, scenarios[j]), Completeness(t, scenarios[i]))
    IN  scenarios[i]

\* the scenario process_adaptive_capacity keeps ("none": no scenario column)
PovertyScenario(t) ==
    IF "scenario" \notin Columns(t) THEN "none"
    ELSE IF "baseline" \in Range(Col(t, "scenario")) THEN "baseline"
    ELSE IF "historic" \in Range(Col(t, "scenario")) THEN "historic"
    ELSE BestScenario(t)

process_adaptive_capacity(t) ==
    LET Keep(r) == PovertyScenario(t) = "none" \/ r["scenario"] = PovertyScenario(t)
    IN  SelectAndRename(SelectSeq(t, Keep), "poverty_headcount_ratio")

\* the administrative keys in the order groupby sorts them
KeyOrder == GeoKeys

KeyOf(r) == GeoKey(r["admin0_name"], r["admin1_name"], r["admin2_name"])

\* process_exposure_vop keeping the first value of each key instead of the sum
process_exposure_vop_first(t) ==
    LET Keep(k) == \E i \in DOMAIN t : KeyOf(t[i]) = k
        keys == SelectSeq(KeyOrder, Keep)
        First(k) == t[CHOOSE i \in DOMAIN t :
                        KeyOf(t[i]) = k /\ \A j \in 1..(i - 1) : KeyOf(t[j]) # k]["value"]
    IN  [n \in DOMAIN keys |->
            [country |-> keys[n].country, region |-> keys[n].region,
             sub_region |-> keys[n].sub_region, vop_crops_usd |-> First(keys[n])]]

\* df.groupby(admin_cols)['value'].sum().reset_index(): one row per key, sorted
\* by key; rows with a missing key column are dropped; the sum skips NaN
process_exposure_vop(t) ==
    LET Present(k) == \E i \in DOMAIN t : KeyOf(t[i]) = k
        Keep(k) == Present(k)
        keys == SelectSeq(KeyOrder, Keep)
        Total(k) ==
            LET vals == Col(t, "value")
            IN  SumOver(vals, {i \in notna(vals) : KeyOf(t[i]) = k})
    IN  [n \in DOMAIN keys |->
            [country |-> keys[n].country, region |-> keys[n].region,
             sub_region |-> keys[n].sub_region, vop_crops_usd |-> Total(keys[n])]]

\* datasets[source] as load_atlas_datasets returns it, for one of the five sources
ProcInit ==
    /\ pc = "loaded"
    /\ NoRun
    /\ NoSoil
    /\ \E src \in Sources : \E rows \in RawRowSets(src) : \E n \in 0..MaxRawRows :
         \E t \in [1..n -> rows] :
            /\ source = src
            /\ df = t
    /\ processed = EmptyProcessed
    /\ master = <<>>
    /\ missing_poverty_mask = <<>>
    /\ risk_df = <<>>

\* processed[src] = t
Store(src, t) ==
    /\ processed' = [processed EXCEPT ![src] = t]
    /\ pc' = "processed"
    /\ UNCHANGED run_vars /\ UNCHANGED soil_vars
    /\ UNCHANGED <<df, source, master, missing_poverty_mask, risk_df>>

\* an exception leaves the run: nothing is returned
Raise ==
    /\ pc' = "failed"
    /\ UNCHANGED run_vars /\ UNCHANGED soil_vars
    /\ UNCHANGED <<df, source, processed, master, missing_poverty_mask, risk_df>>

ProcessHazardNdws ==
    /\ pc = "loaded" /\ source = "ndws"
    /\ Store("ndws", process_hazard_ndws(df))

ProcessHazardErosion ==
    /\ pc = "loaded" /\ source = "erosion"
    /\ Store("erosion", process_hazard_erosion(df))

\* an empty file that has a scenario column makes value_counts().index[0] raise
\* IndexError; an empty file without one passes through
ProcessExposurePopulation ==
    /\ pc = "loaded" /\ source = "population"
    /\ IF df = <<>>
       THEN Store("population", <<>>) \/ Raise
       ELSE IF "scenario" \in Columns(df)
            THEN IF "ssp245" \in Range(Col(df, "scenario"))
                 THEN Store("population", population_for(df, "ssp245"))
                 ELSE \E sc \in MostCommonScenarios(df) : Store("population", population_for(df, sc))
            ELSE Store("population", population_for(df, "none"))

ProcessExposureVop ==
    /\ pc = "loaded" /\ source = "vop"
    /\ Store("vop", process_exposure_vop(df))

\* an empty file that has a scenario column makes max() of no scenarios raise
\* ValueError; an empty file without one passes through
ProcessAdaptiveCapacity ==
    /\ pc = "loaded" /\ source = "poverty"
    /\ IF df = <<>>
       THEN Store("poverty", <<>>) \/ Raise
       ELSE Store("poverty", process_adaptive_capacity(df))

ProcNext ==
    \/ ProcessHazardNdws
    \/ ProcessHazardErosion
    \/ ProcessExposurePopulation
    \/ ProcessExposureVop
    \/ ProcessAdaptiveCapacity

SpecProc == ProcInit /\ [][ProcNext]_vars

(***************************************************************************)
(* Fusion engine: the joins and the poverty imputation of                  *)
(* fuse_all_datasets.                                                      *)
(***************************************************************************)
ValueColumn ==
    [ndws |-> "ndws_future_days", erosion |-> "tai_erosion_proxy",
     population |-> "population_total", vop |-> "vop_crops_usd",
     poverty |-> "poverty_headcount_ratio"]

ProcessedRow(k, col, v) ==
    [x \in {"country", "region", "sub_region", col} |->
        CASE x = "country" -> k.country
          [] x = "region" -> k.region
          [] x = "sub_region" -> k.sub_region
          [] OTHER -> v]

SameKey(l, r) ==
    l["country"] = r["country"] /\ l["region"] = r["region"] /\ l["sub_region"] = r["sub_region"]

\* the left row extended with the value column of the right table
Joined(l, col, v) == Put(l, col, v)

\* left.merge(right, on=['country', 'region', 'sub_region'], how=how): for every
\* left row, in order, one output row per right row with the same key; with
\* how = "left" a left row without a match is kept with a missing value
RECURSIVE merge(_, _, _, _)
merge(left, right, col, how) ==
    IF left = <<>> THEN <<>>
    ELSE LET l == Head(left)
             Match(r) == SameKey(l, r)
             hits == SelectSeq(right, Match)
             rows == IF hits = <<>> /\ how = "left"
                     THEN <<Joined(l, col, NaN)>>
                     ELSE [j \in DOMAIN hits |-> Joined(l, col, hits[j][col])]
         IN  rows \o merge(Tail(left), right, col, how)

\* Series.fillna(v) that fills nothing
fillna_nothing(series, v) == series

\* Series.fillna(v)
fillna(series, v) == [i \in DOMAIN series |-> IF IsNaN(series[i]) THEN v ELSE series[i]]

\* master.groupby('country')[col].transform(lambda x: x.fillna(x.median()))
country_median_fill(t, col) ==
    LET Group(i) == {j \in DOMAIN t : t[j]["country"] = t[i]["country"]}
        Median(i) ==
            SeriesMedian([j \in DOMAIN t |-> IF j \in Group(i) THEN t[j][col] ELSE NaN])
    IN  [i \in DOMAIN t |-> IF IsNaN(t[i][col]) THEN Median(i) ELSE t[i][col]]

\* impute_poverty with the flag taken from the column after it was filled
impute_poverty_flag_after_fill(t) ==
    LET col == "poverty_headcount_ratio"
        initial_missing == Cardinality({i \in DOMAIN t : IsNaN(t[i][col])})
        by_country == country_median_fill(t, col)
        filled == fillna(by_country, SeriesMedian(by_country))
    IN  IF initial_missing > 0
        THEN AssignCol(AssignCol(t, col, filled), "poverty_imputed",
                       [i \in DOMAIN t |-> IsNaN(filled[i])])
        ELSE AssignCol(t, "poverty_imputed", [i \in DOMAIN t |-> FALSE])

\* impute_poverty without the country-level step
impute_poverty_global_only(t) ==
    LET col == "poverty_headcount_ratio"
        mask == [i \in DOMAIN t |-> IsNaN(t[i][col])]
        initial_missing == Cardinality({i \in DOMAIN t : mask[i]})
        filled == fillna(Col(t, col), SeriesMedian(Col(t, col)))
    IN  IF initial_missing > 0
        THEN AssignCol(AssignCol(t, col, filled), "poverty_imputed", mask)
        ELSE AssignCol(t, "poverty_imputed", [i \in DOMAIN t |-> FALSE])

\* impute_poverty writing the global median into every row, present or not
impute_poverty_overwrite(t) ==
    LET col == "poverty_headcount_ratio"
        mask == [i \in DOMAIN t |-> IsNaN(t[i][col])]
        initial_missing == Cardinality({i \in DOMAIN t : mask[i]})
        filled == [i \in DOMAIN t |-> SeriesMedian(Col(t, col))]
    IN  IF initial_missing > 0
        THEN AssignCol(AssignCol(t, col, filled), "poverty_imputed", mask)
        ELSE AssignCol(t, "poverty_imputed", [i \in DOMAIN t |-> FALSE])

\* lines 300-328: hierarchical imputation of poverty_headcount_ratio
impute_poverty(t) ==
    LET col == "poverty_headcount_ratio"
        mask == [i \in DOMAIN t |-> IsNaN(t[i][col])]
        initial_missing == Cardinality({i \in DOMAIN t : mask[i]})
        by_country == country_median_fill(t, col)
        global_median == SeriesMedian(by_country)
        filled == fillna(by_country, global_median)
    IN  IF initial_missing > 0
        THEN AssignCol(AssignCol(t, col, filled), "poverty_imputed", mask)
        ELSE AssignCol(t, "poverty_imputed", [i \in DOMAIN t |-> FALSE])

\* the keys of the processed tables that are fused
FuseKeys == <<GeoKeys[1], GeoKeys[3]>>

\* the key sequence with key k repeated m[k] times
RECURSIVE Expand(_, _)
Expand(keys, m) ==
    IF keys = <<>> THEN <<>>
    ELSE [j \in 1..m[Head(keys)] |-> Head(keys)] \o Expand(Tail(keys), m)

\* the cell of the j-th row of a processed table: a count, or a ratio for poverty
CountCell(j) == Int2Rat(j)

RatioCell(j) == Rat(1, j + 1)

\* a processed table with m[k] rows for key k
TableOf(col, m) ==
    LET ks == Expand(FuseKeys, m)
    IN  [j \in DOMAIN ks |->
            ProcessedRow(ks[j], col,
                IF col = "poverty_headcount_ratio" THEN RatioCell(j) ELSE CountCell(j))]

\* the processed population table, whose first value is missing when
\* first_missing: process_exposure_population passes a missing value on
PopulationTableOf(m, first_missing) ==
    LET t == TableOf(ValueColumn.population, m)
    IN  [j \in DOMAIN t |->
            IF first_missing /\ j = 1 THEN Put(t[j], ValueColumn.population, NaN) ELSE t[j]]

\* up to MaxMult rows for the first key, at most one for the other
Mults == {m \in [Range(FuseKeys) -> 0..MaxMult] : m[FuseKeys[2]] <= 1}

\* groupby leaves the VOP table with at most one row per key
VopMults == [Range(FuseKeys) -> {0, 1}]

\* the processed tables at the start of the fusion
FuseInit ==
    /\ pc = "fusing"
    /\ NoRun
    /\ NoSoil
    /\ \E me \in Mults, mn \in Mults, mv \in VopMults, mp \in Mults, ma \in Mults,
          first_missing \in BOOLEAN :
         processed = [erosion |-> TableOf(ValueColumn.erosion, me),
                      ndws |-> TableOf(ValueColumn.ndws, mn),
                      vop |-> TableOf(ValueColumn.vop, mv),
                      population |-> PopulationTableOf(mp, first_missing),
                      poverty |-> TableOf(ValueColumn.poverty, ma)]
    /\ master = <<>>
    /\ df = <<>>
    /\ source = "none"
    /\ missing_poverty_mask = <<>>
    /\ risk_df = <<>>

\* step 1: master = processed['erosion'].copy()
BaseErosion ==
    /\ pc = "fusing"
    /\ pc' = "base"
    /\ master' = processed.erosion
    /\ UNCHANGED run_vars /\ UNCHANGED soil_vars
    /\ UNCHANGED <<df, source, processed, missing_poverty_mask, risk_df>>

\* step 2: inner join with NDWS
JoinNdws ==
    /\ pc = "base"
    /\ pc' = "joined_ndws"
    /\ master' = merge(master, processed.ndws, ValueColumn.ndws, "inner")
    /\ UNCHANGED run_vars /\ UNCHANGED soil_vars
    /\ UNCHANGED <<df, source, processed, missing_poverty_mask, risk_df>>

\* step 3: inner join with VOP
JoinVop ==
    /\ pc = "joined_ndws"
    /\ pc' = "joined_vop"
    /\ master' = merge(master, processed.vop, ValueColumn.vop, "inner")
    /\ UNCHANGED run_vars /\ UNCHANGED soil_vars
    /\ UNCHANGED <<df, source, processed, missing_poverty_mask, risk_df>>

\* step 4: left join with population, missing population filled with 0
JoinPopulation ==
    /\ pc = "joined_vop"
    /\ pc' = "joined_population"
    /\ LET joined == merge(master, processed.population, ValueColumn.population, "left")
       IN  master' = AssignCol(joined, "population_total",
                         fillna(Col(joined, "population_total"), Zero))
    /\ UNCHANGED run_vars /\ UNCHANGED soil_vars
    /\ UNCHANGED <<df, source, processed, missing_poverty_mask, risk_df>>

\* step 5: left join with poverty
JoinPoverty ==
    /\ pc = "joined_population"
    /\ pc' = "joined"
    /\ master' = merge(master, processed.poverty, ValueColumn.poverty, "left")
    /\ UNCHANGED run_vars /\ UNCHANGED soil_vars
    /\ UNCHANGED <<df, source, processed, missing_poverty_mask, risk_df>>

\* lines 300-328: imputation and the poverty_imputed flag
ImputePoverty ==
    /\ pc = "joined"
    /\ pc' = "fused"
    /\ missing_poverty_mask' =
          IF \E i \in DOMAIN master : IsNaN(master[i]["poverty_headcount_ratio"])
          THEN [i \in DOMAIN master |-> IsNaN(master[i]["poverty_headcount_ratio"])]
          ELSE missing_poverty_mask
    /\ master' = impute_poverty(master)
    /\ UNCHANGED run_vars /\ UNCHANGED soil_vars
    /\ UNCHANGED <<df, source, processed, risk_df>>

FuseNext ==
    \/ BaseErosion
    \/ JoinNdws
    \/ JoinVop
    \/ JoinPopulation
    \/ JoinPoverty
    \/ ImputePoverty

SpecFuse == FuseInit /\ [][FuseNext]_vars

(***************************************************************************)
(* The imputation on its own, over master tables with any pattern of       *)
(* missing poverty values.                                                 *)
(***************************************************************************)
Countries == {"A", "B", "C"}

SubRegionNames == <<"s1", "s2", "s3", "s4", "s5", "s6">>

\* poverty ratios on the 0-1 scale, and NaN
RatioVals == {NaN, Zero, One}

\* the master table after the joins: one row per sub-region, any country, any
\* poverty cell (missing when the poverty source has no row or no value for it)
ImputeInit ==
    /\ pc = "joined"
    /\ NoRun
    /\ NoSoil
    /\ \E n \in 1..MaxMasterRows :
         \E c \in [1..n -> Countries], pov \in [1..n -> RatioVals] :
            master = [i \in 1..n |->
                         [country |-> c[i], region |-> "r1", sub_region |-> SubRegionNames[i],
                          tai_erosion_proxy |-> One, ndws_future_days |-> One,
                          vop_crops_usd |-> One, population_total |-> One,
                          poverty_headcount_ratio |-> pov[i]]]
    /\ df = <<>>
    /\ source = "none"
    /\ processed = EmptyProcessed
    /\ missing_poverty_mask = <<>>
    /\ risk_df = <<>>

ImputeNext == ImputePoverty

SpecImpute == ImputeInit /\ [][ImputeNext]_vars

(***************************************************************************)
(* Aggregator and output writer: create_multi_level_aggregations and       *)
(* save_outputs.                                                           *)
(***************************************************************************)
CountryOrder == <<"A", "B", "C">>

RegionOrder == <<"r1", "r2">>

\* the group keys of groupby(['country']) and of groupby(['country', 'region'])
\* in the order groupby sorts them
CountryGroups == [n \in DOMAIN CountryOrder |-> [country |-> CountryOrder[n]]]

RegionGroups ==
    [n \in 1..(Len(CountryOrder) * Len(RegionOrder)) |->
        [country |-> CountryOrder[((n - 1) \div Len(RegionOrder)) + 1],
         region |-> RegionOrder[((n - 1) % Len(RegionOrder)) + 1]]]

\* the rows of t that belong to group k
Members(t, k) == {i \in DOMAIN t : \A c \in DOMAIN k : t[i][c] = k[c]}

\* the groups of t cut down to the first of them
GroupsOf_first(t, groups) ==
    LET Present(k) == Members(t, k) # {}
    IN  SubSeq(SelectSeq(groups, Present), 1, 1)

\* the groups of t, in sorted order
GroupsOf(t, groups) ==
    LET Present(k) == Members(t, k) # {}
    IN  SelectSeq(groups, Present)

\* agg 'sum' taking the first cell of the group instead of adding the cells up
GroupSum_first(t, col, I) ==
    IF I = {} THEN Zero ELSE t[CHOOSE i \in I : \A j \in I : i <= j][col]

\* agg 'sum': the sum of the present cells of the group
GroupSum(t, col, I) == SumOver(Col(t, col), I \cap notna(Col(t, col)))

\* agg 'mean' taking the first present cell of the group
GroupMean_first(t, col, I) ==
    IF I \cap notna(Col(t, col)) = {} THEN NaN
    ELSE t[CHOOSE i \in I \cap notna(Col(t, col)) :
              \A j \in I \cap notna(Col(t, col)) : i <= j][col]

\* agg 'mean': the mean of the present cells of the group
GroupMean(t, col, I) ==
    IF I \cap notna(Col(t, col)) = {} THEN NaN
    ELSE RDiv(GroupSum(t, col, I), Int2Rat(Cardinality(I \cap notna(Col(t, col)))))

\* np.average(x, weights=df.loc[x.index, 'population_total']) raises
\* ZeroDivisionError when the weights of the group add up to 0
WeightsSumToZero(t, I) == SumOver(Col(t, "population_total"), I) = Zero

\* np.average(x, weights=...): sum(x * w) / sum(w); a missing score makes it NaN
np_average(t, col, I) ==
    RDiv(SumOver([i \in DOMAIN t |-> RMul(t[i][col], t[i]["population_total"])], I),
         SumOver(Col(t, "population_total"), I))

WeightedColumns == {"compound_risk_score", "social_vulnerability", "vulnerability_composite"}

MeanColumns == {"hazard_water_stress", "hazard_erosion_risk", "environmental_vulnerability"}

SumColumns == {"population_total", "vop_crops_usd"}

\* one row of df.groupby(keys).agg({...}).reset_index() with the columns added
\* after it; level is 'region' or 'country'
AggRow(t, k, level) ==
    [c \in {"country", "region", "sub_region", "admin_level", "admin_name", "risk_category"}
           \cup SumColumns \cup WeightedColumns \cup MeanColumns |->
        CASE c = "country" -> k.country
          [] c \in {"region", "sub_region", "admin_name"} -> k[level]
          [] c = "admin_level" -> level
          [] c = "risk_category" -> cut(np_average(t, "compound_risk_score", Members(t, k)))
          [] c \in SumColumns -> GroupSum(t, c, Members(t, k))
          [] c \in WeightedColumns -> np_average(t, c, Members(t, k))
          [] OTHER -> GroupMean(t, c, Members(t, k))]

\* region_agg of create_multi_level_aggregations
region_aggregation(t) ==
    [n \in DOMAIN GroupsOf(t, RegionGroups) |-> AggRow(t, GroupsOf(t, RegionGroups)[n], "region")]

\* country_agg of create_multi_level_aggregations
country_aggregation(t) ==
    [n \in DOMAIN GroupsOf(t, CountryGroups) |-> AggRow(t, GroupsOf(t, CountryGroups)[n], "country")]

\* some group's weights add up to 0: the lambda of the agg raises
aggregation_raises(t) ==
    \/ \E n \in DOMAIN GroupsOf(t, RegionGroups) :
          WeightsSumToZero(t, Members(t, GroupsOf(t, RegionGroups)[n]))
    \/ \E n \in DOMAIN GroupsOf(t, CountryGroups) :
          WeightsSumToZero(t, Members(t, GroupsOf(t, CountryGroups)[n]))

\* the files save_outputs writes, in the order it writes them
OutputFiles ==
    <<"atlas_sub_region_risk_assessment.csv", "atlas_region_risk_assessment.csv",
      "atlas_country_risk_assessment.csv", "atlas_complete_risk_assessment.csv",
      "atlas_risk_assessment_summary.json", "atlas_high_risk_regions.csv",
      "atlas_country_summary.csv">>

\* run_complete_analysis, steps 4 to 7.  add_metadata_columns,
\* validate_realistic_figures and generate_summary_statistics add columns and
\* statistics that the aggregation does not read and raise nothing on a
\* non-empty table.  save_outputs aggregates first; then it writes the files
\* one after the other, each straight to its final path, and a write may fail
\* (OSError) after the files before it are on disk.
SaveOutputs ==
    /\ pc = "scored"
    /\ IF aggregation_raises(risk_df)
       THEN /\ pc' = "failed"
            /\ error' = [type |-> "ZeroDivisionError", source |-> "none", columns |-> {}]
            /\ UNCHANGED <<written, country_agg, region_agg>>
       ELSE /\ country_agg' = country_aggregation(risk_df)
            /\ region_agg' = region_aggregation(risk_df)
            /\ \E k \in 0..Len(OutputFiles) :
                  /\ written' = SubSeq(OutputFiles, 1, k)
                  /\ IF k = Len(OutputFiles)
                     THEN pc' = "done" /\ error' = error
                     ELSE /\ pc' = "failed"
                          /\ error' = [type |-> "OSError", source |-> "none", columns |-> {}]
    /\ UNCHANGED <<df, source, processed, master, missing_poverty_mask, risk_df,
                   raw_files, datasets>>
    /\ UNCHANGED soil_vars

\* population totals of the sub-regions handed to the aggregator
PopVals == {Zero, One, Int2Rat(3)}

AggKeys == {[country |-> "A", region |-> "r1"], [country |-> "A", region |-> "r2"],
            [country |-> "B", region |-> "r1"]}

\* a scored table: calculate_risk_scores applied to a fused master table
AggInit ==
    /\ pc = "scored"
    /\ \E n \in 1..MaxAggRows :
         \E k \in [1..n -> AggKeys], pop \in [1..n -> PopVals],
            ndws \in [1..n -> {NaN, Zero, One}], pov \in [1..n -> {Rat(1, 4), One}] :
            /\ master = [i \in 1..n |->
                   [country |-> k[i].country, region |-> k[i].region,
                    sub_region |-> SubRegionNames[i],
                    tai_erosion_proxy |-> One, ndws_future_days |-> ndws[i],
                    vop_crops_usd |-> One, population_total |-> pop[i],
                    poverty_headcount_ratio |-> pov[i], poverty_imputed |-> FALSE]]
            /\ risk_df = calculate_risk_scores(master)
    /\ df = <<>>
    /\ source = "none"
    /\ processed = EmptyProcessed
    /\ missing_poverty_mask = <<>>
    /\ NoRun
    /\ NoSoil

AggNext == SaveOutputs

SpecAgg == AggInit /\ [][AggNext]_vars

(***************************************************************************)
(* A whole run: run_complete_analysis from the files of data/raw to the    *)
(* files of data/processed.                                                *)
(***************************************************************************)
\* what stands for a file that does not exist
ABSENT == <<[exists |-> FALSE]>>

\* the order in which load_atlas_datasets reads and fuse_all_datasets
\* processes the five sources
LoadOrder == <<"ndws", "erosion", "population", "vop", "poverty">>

FileName ==
    [ndws |-> "atlas_hazard_ndws_future.csv", erosion |-> "atlas_hazard_erosion_proxy.csv",
     population |-> "atlas_exposure_population.csv", vop |-> "atlas_exposure_vop_crops.csv",
     poverty |-> "atlas_adaptive_capacity_poverty.csv"]

AdminRow(k) == [admin0_name |-> k.country, admin1_name |-> k.region, admin2_name |-> k.sub_region]

\* r @@ extra, for rows
With(r, extra) == [c \in DOMAIN r \cup DOMAIN extra |-> IF c \in DOMAIN extra THEN extra[c] ELSE r[c]]

Without(r, col) == [c \in DOMAIN r \ {col} |-> r[c]]

\* a one-row file of each source that its processor keeps
GoodFile ==
    [ndws |-> <<With(AdminRow(GeoKeys[1]),
                     [scenario |-> "ssp245", timeframe |-> "2041_2060", value |-> One])>>,
     erosion |-> <<With(AdminRow(GeoKeys[1]),
                     [scenario |-> "historic", timeframe |-> "historic", hazard |-> "TAI",
                      value |-> One])>>,
     population |-> <<With(AdminRow(GeoKeys[1]), [scenario |-> "ssp245", value |-> One])>>,
     vop |-> <<With(AdminRow(GeoKeys[1]), [crop |-> "maize", value |-> One])>>,
     poverty |-> <<With(AdminRow(GeoKeys[1]), [scenario |-> "baseline", value |-> Rat(1, 4)])>>]

\* a file of each source of which its processor keeps no row: another
\* scenario, another hazard, a row without a region name, or no rows at all
\* (a header without a scenario column)
UnmatchedFile ==
    [ndws |-> <<With(AdminRow(GeoKeys[1]),
                     [scenario |-> "ssp585", timeframe |-> "2041_2060", value |-> One])>>,
     erosion |-> <<With(AdminRow(GeoKeys[1]),
                     [scenario |-> "historic", timeframe |-> "historic", hazard |-> "NDWS",
                      value |-> One])>>,
     population |-> <<>>,
     vop |-> <<With(AdminRow(GeoKey("B", NA, "s4")), [crop |-> "maize", value |-> One])>>,
     poverty |-> <<>>]

\* the good file without its value column
NoValueFile == [src \in Sources |-> <<Without(GoodFile[src][1], "value")>>]

\* the administrative units of a file with several rows: two sub-regions of
\* one region, a sub-region of another country, and a row without region name
MixedKeys == <<GeoKeys[1], GeoKeys[2], GeoKeys[3], GeoKey("B", NA, "s4")>>

\* the dimension columns and the values of the rows of such a file
MixedCells ==
    [ndws |-> [dims |-> [scenario |-> "ssp245", timeframe |-> "2041_2060"],
               values |-> <<Zero, One, One, One>>],
     erosion |-> [dims |-> [scenario |-> "historic", timeframe |-> "historic", hazard |-> "TAI"],
                  values |-> <<One, Zero, One, One>>],
     population |-> [dims |-> [scenario |-> "ssp245"],
                     values |-> <<One, Int2Rat(3), Int2Rat(2), One>>],
     vop |-> [dims |-> [crop |-> "maize"],
              values |-> <<One, Int2Rat(2), Int2Rat(3), One>>],
     poverty |-> [dims |-> [scenario |-> "baseline"],
                  values |-> <<Rat(1, 4), One, Rat(1, 2), One>>]]

\* a well-formed file of each source with these four rows
MixedFile ==
    [src \in Sources |->
        [i \in DOMAIN MixedKeys |->
            With(With(AdminRow(MixedKeys[i]), MixedCells[src].dims),
                 [value |-> MixedCells[src].values[i]])]]

RunFiles(src) == {ABSENT, GoodFile[src], MixedFile[src], UnmatchedFile[src], NoValueFile[src]}

\* the index of the first element of the sequence seq that is in S, or 0
FirstIndex(seq, S) ==
    IF \E i \in DOMAIN seq : seq[i] \in S
    THEN CHOOSE i \in DOMAIN seq : seq[i] \in S /\ \A j \in 1..(i - 1) : seq[j] \notin S
    ELSE 0

\* load_atlas_datasets with a missing file skipped instead of raising
load_atlas_datasets_skip_missing(files) == [error |-> NoError, datasets |-> files]

\* load_atlas_datasets: reads the five files in order; the first one that
\* does not exist raises FileNotFoundError naming it
load_atlas_datasets(files) ==
    LET n == FirstIndex(LoadOrder, {src \in Sources : files[src] = ABSENT})
    IN  IF n = 0
        THEN [error |-> NoError, datasets |-> files]
        ELSE [error |-> [type |-> "FileNotFoundError", source |-> LoadOrder[n], columns |-> {}],
              datasets |-> <<>>]

AdminCols == {"admin0_name", "admin1_name", "admin2_name"}

\* the columns a processor reads without testing for them
RequiredColumns ==
    [ndws |-> AdminCols \cup {"scenario", "timeframe", "value"},
     erosion |-> AdminCols \cup {"scenario", "timeframe", "hazard", "value"},
     population |-> AdminCols \cup {"value"},
     vop |-> AdminCols \cup {"crop", "value"},
     poverty |-> AdminCols \cup {"value"}]

\* the columns the processor of src does not find in t (none in a table
\* without rows, which has its header)
MissingColumns(src, t) == IF t = <<>> THEN {} ELSE RequiredColumns[src] \ Columns(t)

\* the exception the processor of src raises on t: pandas' KeyError names the
\* column, not the source; NoError when it raises none
process_error(src, t) ==
    IF t = ABSENT THEN [type |-> "KeyError", source |-> "none", columns |-> {}]
    ELSE IF MissingColumns(src, t) # {}
         THEN [type |-> "KeyError", source |-> "none", columns |-> MissingColumns(src, t)]
         ELSE NoError

\* the scenarios process_exposure_population may keep
PopulationChoices(t) ==
    IF "scenario" \notin Columns(t) THEN {"none"}
    ELSE IF "ssp245" \in Range(Col(t, "scenario")) THEN {"ssp245"}
    ELSE MostCommonScenarios(t)

\* the five processed tables
process_all(d, population_scenario) ==
    [ndws |-> process_hazard_ndws(d.ndws),
     erosion |-> process_hazard_erosion(d.erosion),
     population |-> population_for(d.population, population_scenario),
     vop |-> process_exposure_vop(d.vop),
     poverty |-> process_adaptive_capacity(d.poverty)]

\* steps 1 to 5 of fuse_all_datasets: the joins
join_all(p) ==
    LET m2 == merge(p.erosion, p.ndws, ValueColumn.ndws, "inner")
        m3 == merge(m2, p.vop, ValueColumn.vop, "inner")
        m4 == merge(m3, p.population, ValueColumn.population, "left")
        m5 == AssignCol(m4, "population_total", fillna(Col(m4, "population_total"), Zero))
    IN  merge(m5, p.poverty, ValueColumn.poverty, "left")

\* run_complete_analysis, step 1
LoadAtlasDatasets ==
    /\ pc = "start"
    /\ error' = load_atlas_datasets(raw_files).error
    /\ datasets' = load_atlas_datasets(raw_files).datasets
    /\ pc' = IF load_atlas_datasets(raw_files).error = NoError THEN "loaded" ELSE "failed"
    /\ UNCHANGED <<df, source, processed, master, missing_poverty_mask, risk_df,
                   raw_files, written, country_agg, region_agg>>
    /\ UNCHANGED soil_vars

\* run_complete_analysis, step 2: fuse_all_datasets and the test for an empty
\* master table (lines 673-679).  The first processor that raises ends the run.
FuseAllDatasets ==
    /\ pc = "loaded"
    /\ LET n == FirstIndex(LoadOrder,
                           {src \in Sources : process_error(src, datasets[src]) # NoError})
       IN  IF n # 0
           THEN /\ pc' = "failed"
                /\ error' = process_error(LoadOrder[n], datasets[LoadOrder[n]])
                /\ UNCHANGED <<processed, master, missing_poverty_mask>>
           ELSE \E sc \in PopulationChoices(datasets.population) :
                  /\ processed' = process_all(datasets, sc)
                  /\ master' = impute_poverty(join_all(process_all(datasets, sc)))
                  /\ missing_poverty_mask' =
                        [i \in DOMAIN master' |-> master'[i]["poverty_imputed"]]
                  /\ IF master' = <<>>
                     THEN /\ pc' = "failed"
                          /\ error' = [type |-> "ValueError", source |-> "none", columns |-> {}]
                     ELSE pc' = "fused" /\ error' = error
    /\ UNCHANGED <<df, source, risk_df, raw_files, datasets, written, country_agg, region_agg>>
    /\ UNCHANGED soil_vars

\* the files of data/raw before a run
RunInit ==
    /\ pc = "start"
    /\ \E f \in [Sources -> UNION {RunFiles(src) : src \in Sources}] :
          /\ \A src \in Sources : f[src] \in RunFiles(src)
          /\ raw_files = f
    /\ datasets = <<>>
    /\ error = NoError
    /\ written = <<>>
    /\ country_agg = <<>>
    /\ region_agg = <<>>
    /\ df = <<>>
    /\ source = "none"
    /\ processed = EmptyProcessed
    /\ master = <<>>
    /\ missing_poverty_mask = <<>>
    /\ risk_df = <<>>
    /\ NoSoil

RunNext ==
    \/ LoadAtlasDatasets
    \/ FuseAllDatasets
    \/ CalculateRiskScores
    \/ SaveOutputs

SpecRun == RunInit /\ [][RunNext]_vars

(***************************************************************************)
(* Soil health analyzer (src/src/analysis/soil_health_analysis.py,         *)
(* SoilHealthAnalyzer): the pH classifier and the risk-level classifier.   *)
(***************************************************************************)
\* config.RISK_THRESHOLDS
RISK_THRESHOLDS == [low |-> Rat(1, 4), moderate |-> Rat(1, 2), high |-> Rat(3, 4), very_high |-> One]

\* xr.where(cond, x, y) on one pixel
where(cond, x, y) == IF cond THEN x ELSE y

\* the class of one pixel: the chain of xr.where over the seven conditions,
\* starting from 0; every comparison with NaN is false
ph_class(ph) ==
    LET c1 == where(RLt(ph, Rat(45, 10)), 1, 0)
        c2 == where(RLe(Rat(45, 10), ph) /\ RLt(ph, Rat(55, 10)), 2, c1)
        c3 == where(RLe(Rat(55, 10), ph) /\ RLt(ph, Rat(60, 10)), 3, c2)
        c4 == where(RLe(Rat(60, 10), ph) /\ RLt(ph, Rat(65, 10)), 4, c3)
        c5 == where(RLe(Rat(65, 10), ph) /\ RLt(ph, Rat(73, 10)), 5, c4)
        c6 == where(RLe(Rat(73, 10), ph) /\ RLt(ph, Rat(78, 10)), 6, c5)
    IN  where(RLe(Rat(78, 10), ph), 7, c6)

\* classify_soil_ph: ph_risk = (8 - ph_classes) / 7.0
classify_soil_ph(raster) == [i \in DOMAIN raster |-> Rat(8 - ph_class(raster[i]), 7)]

\* classify_risk_levels with the comparisons at the thresholds closed on the right
risk_class_closed_right(x) ==
    LET c1 == where(RLe(x, RISK_THRESHOLDS.low), 1, 0)
        c2 == where(RLt(RISK_THRESHOLDS.low, x) /\ RLe(x, RISK_THRESHOLDS.moderate), 2, c1)
        c3 == where(RLt(RISK_THRESHOLDS.moderate, x) /\ RLe(x, RISK_THRESHOLDS.high), 3, c2)
    IN  where(RLt(RISK_THRESHOLDS.high, x), 4, c3)

\* the class of one pixel: the chain of xr.where over the four conditions
risk_class(x) ==
    LET c1 == where(RLt(x, RISK_THRESHOLDS.low), 1, 0)
        c2 == where(RLe(RISK_THRESHOLDS.low, x) /\ RLt(x, RISK_THRESHOLDS.moderate), 2, c1)
        c3 == where(RLe(RISK_THRESHOLDS.moderate, x) /\ RLt(x, RISK_THRESHOLDS.high), 3, c2)
    IN  where(RLe(RISK_THRESHOLDS.high, x), 4, c3)

classify_risk_levels(raster) == [i \in DOMAIN raster |-> risk_class(raster[i])]

\* pH values around the class limits, and a pixel without data
PhVals == {NaN} \cup {Rat(n, 10) : n \in {40, 45, 50, 55, 60, 65, 70, 73, 78, 80}}

\* risk indices in [0, 1] around the thresholds, and a pixel without data
RiskIndexVals == {NaN} \cup {Rat(n, 20) : n \in {0, 2, 5, 6, 10, 12, 15, 16, 20}}

\* a pH raster or a risk-index raster handed to the analyzer
SoilInit ==
    /\ pc = "soil"
    /\ \E n \in 1..MaxPixels :
          \/ \E r \in [1..n -> PhVals] : ph_data = r /\ risk_index = <<>>
          \/ \E r \in [1..n -> RiskIndexVals] : risk_index = r /\ ph_data = <<>>
    /\ ph_risk = <<>>
    /\ risk_classes = <<>>
    /\ df = <<>>
    /\ source = "none"
    /\ processed = EmptyProcessed
    /\ master = <<>>
    /\ missing_poverty_mask = <<>>
    /\ risk_df = <<>>
    /\ NoRun

ClassifySoilPh ==
    /\ pc = "soil"
    /\ ph_data # <<>>
    /\ ph_risk' = classify_soil_ph(ph_data)
    /\ pc' = "ph_classified"
    /\ UNCHANGED run_vars
    /\ UNCHANGED <<df, source, processed, master, missing_poverty_mask, risk_df,
                   ph_data, risk_index, risk_classes>>

ClassifyRiskLevels ==
    /\ pc = "soil"
    /\ risk_index # <<>>
    /\ risk_classes' = classify_risk_levels(risk_index)
    /\ pc' = "risk_classified"
    /\ UNCHANGED run_vars
    /\ UNCHANGED <<df, source, processed, master, missing_poverty_mask, risk_df,
                   ph_data, ph_risk, risk_index>>

SoilNext ==
    \/ ClassifySoilPh
    \/ ClassifyRiskLevels

SpecSoil == SoilInit /\ [][SoilNext]_vars

(***************************************************************************)
(* Properties of the risk scorer.                                          *)
(***************************************************************************)
NormalizedScoreColumns ==
    {"hazard_score_composite", "social_vulnerability", "environmental_vulnerability",
     "vulnerability_composite", "compound_risk_score"}

InUnitInterval(x) == RLe(Zero, x) /\ RLe(x, One)

\* C1: after risk scoring every normalized score cell (hazard score, social,
\* environmental and combined vulnerability, compound risk) is NaN or in [0, 1].
C1_ScoresInUnitInterval ==
    pc = "scored" =>
        \A i \in DOMAIN risk_df : \A c \in NormalizedScoreColumns :
            IsNaN(risk_df[i][c]) \/ InUnitInterval(risk_df[i][c])

\* C2: whenever some record has a compound risk score, the largest compound
\* risk score of the scored table is exactly 1.
C2_MaxCompoundRiskIsOne ==
    (pc = "scored" /\ notna(Col(risk_df, "compound_risk_score")) # {}) =>
        SeriesMax(Col(risk_df, "compound_risk_score")) = One

\* closed-left / open-right bins, the last one closed on both ends
ClosedLeftCategory(x) ==
    IF RLt(x, Rat(1, 4)) THEN "Low"
    ELSE IF RLt(x, Rat(1, 2)) THEN "Moderate"
    ELSE IF RLt(x, Rat(3, 4)) THEN "High"
    ELSE "Very High"

\* C3: risk_category is assigned from compound_risk_score with the bins
\* Low [0, 0.25), Moderate [0.25, 0.5), High [0.5, 0.75), Very High [0.75, 1].
C3_ClosedLeftBins ==
    pc = "scored" =>
        \A i \in DOMAIN risk_df :
            InUnitInterval(risk_df[i]["compound_risk_score"]) =>
                risk_df[i]["risk_category"] = ClosedLeftCategory(risk_df[i]["compound_risk_score"])

\* every hazard indicator of master row i is missing
AllHazardMissing(i) ==
    IsNaN(master[i]["ndws_future_days"]) /\ IsNaN(master[i]["tai_erosion_proxy"])

\* every vulnerability indicator of master row i is missing (poverty for the
\* social part, the erosion proxy for the environmental part)
AllVulnerabilityMissing(i) ==
    IsNaN(master[i]["poverty_headcount_ratio"]) /\ IsNaN(master[i]["tai_erosion_proxy"])

\* C4: a record whose hazard indicators are all missing, or whose vulnerability
\* indicators are all missing, gets compound_risk_score = NaN.
C4_MissingIndicatorsGiveNaN ==
    pc = "scored" =>
        \A i \in DOMAIN risk_df :
            (AllHazardMissing(i) \/ AllVulnerabilityMissing(i)) =>
                IsNaN(risk_df[i]["compound_risk_score"])

(***************************************************************************)
(* Properties of the per-source processors.                                *)
(***************************************************************************)
RowKey(r) == GeoKey(r["country"], r["region"], r["sub_region"])

\* no two rows of the table have the same (country, region, sub_region)
UniqueGeoKeys(t) == \A i, j \in DOMAIN t : RowKey(t[i]) = RowKey(t[j]) => i = j

\* C5: every processed source table has at most one row per GeoKey, whatever
\* the multiplicity of the raw rows per GeoKey.
C5_ProcessedGeoKeysUnique ==
    pc = "processed" => \A src \in Sources : UniqueGeoKeys(processed[src])


(***************************************************************************)
(* Properties of the fusion engine.                                        *)
(***************************************************************************)
Keys(t) == {RowKey(t[i]) : i \in DOMAIN t}

JoinedStates == {"joined_ndws", "joined_vop", "joined_population", "joined"}

\* C6: the fused master table never has more rows than the processed table of
\* a required core source (hazard: erosion proxy and NDWS; vulnerability:
\* poverty), and no join step increases the row count of the table it is
\* applied to.
C6_NoFanOut ==
    [][/\ pc' \in JoinedStates => Len(master') <= Len(master)
       /\ pc' = "fused" =>
             /\ Len(master') <= Len(processed.erosion)
             /\ Len(master') <= Len(processed.ndws)
             /\ Len(master') <= Len(processed.poverty)]_vars

\* C7: every row of the fused master table has a GeoKey that is present in
\* the processed hazard sources and in the processed poverty source.
C7_MasterKeysInCoreSources ==
    pc = "fused" =>
        \A i \in DOMAIN master :
            /\ RowKey(master[i]) \in Keys(processed.erosion)
            /\ RowKey(master[i]) \in Keys(processed.ndws)
            /\ RowKey(master[i]) \in Keys(processed.poverty)

(***************************************************************************)
(* Properties of the imputation.                                           *)
(***************************************************************************)
Poverty(row) == row["poverty_headcount_ratio"]

\* C8: after the imputation has run on a master table with at least one
\* missing poverty value, no row has a missing poverty value.
C8_NoPovertyMissingAfterImputation ==
    (pc = "fused" /\ \E i \in DOMAIN missing_poverty_mask : missing_poverty_mask[i]) =>
        \A i \in DOMAIN master : ~IsNaN(Poverty(master[i]))

\* C9: poverty_imputed is True for exactly the rows whose poverty value was
\* missing immediately before the imputation and False for every other row;
\* when no value was missing the poverty column is left as it was and
\* poverty_imputed is False for all rows.
C9_ImputedFlagMarksMissing ==
    [][(pc = "joined" /\ pc' = "fused") =>
          /\ DOMAIN master' = DOMAIN master
          /\ \A i \in DOMAIN master :
                master'[i]["poverty_imputed"] = IsNaN(Poverty(master[i]))
          /\ (\A i \in DOMAIN master : ~IsNaN(Poverty(master[i]))) =>
                \A i \in DOMAIN master :
                    /\ Poverty(master'[i]) = Poverty(master[i])
                    /\ master'[i]["poverty_imputed"] = FALSE]_vars

\* rows flagged and rows not flagged in the same fused table
C9_Witness ==
    /\ pc = "fused"
    /\ \E i, j \in DOMAIN master :
          master[i]["poverty_imputed"] /\ ~master[j]["poverty_imputed"]

\* the poverty values present in country c of table t, as a series
PresentIn(t, c) ==
    [j \in DOMAIN t |-> IF t[j]["country"] = c THEN Poverty(t[j]) ELSE NaN]

HasPresent(t, c) == \E j \in DOMAIN t : t[j]["country"] = c /\ ~IsNaN(Poverty(t[j]))

\* the poverty column of t across all rows once the countries that have a
\* present value are filled
AfterCountryStep(t) ==
    [j \in DOMAIN t |->
        IF ~IsNaN(Poverty(t[j])) THEN Poverty(t[j])
        ELSE IF HasPresent(t, t[j]["country"])
             THEN SeriesMedian(PresentIn(t, t[j]["country"]))
             ELSE NaN]

\* C10: each originally missing poverty value is replaced by the median of the
\* poverty values present in the same country when that country has at least
\* one; only when the country has none is it replaced by the global median
\* across all rows (of the column as the country-level step leaves it).
C10_CountryThenGlobalMedian ==
    [][(pc = "joined" /\ pc' = "fused") =>
          \A i \in DOMAIN master :
              IsNaN(Poverty(master[i])) =>
                  Poverty(master'[i]) =
                      IF HasPresent(master, master[i]["country"])
                      THEN SeriesMedian(PresentIn(master, master[i]["country"]))
                      ELSE SeriesMedian(AfterCountryStep(master))]_vars

\* one value filled from its country and one from the global median, in a
\* table where the global median differs from the median of the values that
\* were present
C10_Witness ==
    /\ pc = "fused"
    /\ \E i, k \in DOMAIN master :
          /\ master[i]["poverty_imputed"] /\ master[k]["poverty_imputed"]
          /\ \E j \in DOMAIN master :
                master[j]["country"] = master[i]["country"] /\ ~master[j]["poverty_imputed"]
          /\ \A j \in DOMAIN master :
                master[j]["country"] = master[k]["country"] => master[j]["poverty_imputed"]
          /\ ~IsNaN(Poverty(master[k]))
          /\ Poverty(master[k]) #
                SeriesMedian([j \in DOMAIN master |->
                    IF master[j]["poverty_imputed"] THEN NaN ELSE Poverty(master[j])])


\* C11: when every poverty value of the master table is missing the run does
\* not go on past the imputation: a table that leaves the imputation has at
\* least one poverty value.
C11_AllMissingAborts ==
    pc = "fused" => \E i \in DOMAIN master : ~IsNaN(Poverty(master[i]))

(***************************************************************************)
(* Properties of the normalisation and of the vulnerability composite.     *)
(***************************************************************************)
\* r is the linear min-max scaling of s, or the constant 0.5 when the present
\* values of s are all equal
MinMaxScaled(s, r) ==
    LET lo == SeriesMin(s)
        hi == SeriesMax(s)
    IN  IF lo = hi
        THEN \A i \in DOMAIN r : r[i] = Half
        ELSE \A i \in DOMAIN r :
                IF IsNaN(s[i]) THEN IsNaN(r[i])
                ELSE /\ InUnitInterval(r[i])
                     /\ RMul(r[i], RSub(hi, lo)) = RSub(s[i], lo)
                     /\ s[i] = lo => r[i] = Zero
                     /\ s[i] = hi => r[i] = One

\* C12: normalize is linear min-max scaling: every non-missing result lies in
\* [0, 1], the column minimum maps to 0 and the maximum to 1; when all present
\* values are equal the result is 0.5 for every element.
C12_NormalizeMinMax ==
    pc = "scored" =>
        /\ notna(Col(master, "ndws_future_days")) # {} =>
              MinMaxScaled(Col(master, "ndws_future_days"), Col(risk_df, "hazard_water_stress"))
        /\ notna(Col(master, "tai_erosion_proxy")) # {} =>
              MinMaxScaled(Col(master, "tai_erosion_proxy"), Col(risk_df, "hazard_erosion_risk"))

\* a scored table whose NDWS column has two different values, one of them
\* not 0
C12_Witness ==
    /\ pc = "scored"
    /\ \E i, j \in DOMAIN master :
          /\ RLt(Zero, master[i]["ndws_future_days"])
          /\ RLt(master[i]["ndws_future_days"], master[j]["ndws_future_days"])

RawGeoKeys(t) ==
    {KeyOf(t[i]) : i \in {j \in DOMAIN t :
        t[j]["admin0_name"] # NA /\ t[j]["admin1_name"] # NA /\ t[j]["admin2_name"] # NA}}

\* the values of the first n rows of t with key k, added up from the top
\* (a missing value adds nothing)
RECURSIVE KeyTotal(_, _, _)
KeyTotal(t, k, n) ==
    IF n = 0 THEN Zero
    ELSE IF KeyOf(t[n]) = k /\ ~IsNaN(t[n]["value"])
         THEN RAdd(KeyTotal(t, k, n - 1), t[n]["value"])
         ELSE KeyTotal(t, k, n - 1)

ScoreFields == WeightedColumns \cup MeanColumns

\* sum(score_i x population_i) / sum(population_i) over the rows I of t
PopulationWeightedMean(t, col, I) ==
    RDiv(SumOver([i \in DOMAIN t |-> RMul(t[i][col], t[i]["population_total"])], I),
         SumOver([i \in DOMAIN t |-> t[i]["population_total"]], I))

\* the rows of the scored table that an aggregate row stands for
MembersOf(row) ==
    IF row["admin_level"] = "region"
    THEN Members(risk_df, [country |-> row["country"], region |-> row["region"]])
    ELSE Members(risk_df, [country |-> row["country"]])

AggregateRows == Range(region_agg) \cup Range(country_agg)

\* C14: in every region and country aggregate each score-type field is the
\* population-weighted mean of the field over the group's members.
C14_PopulationWeightedScores ==
    pc = "done" =>
        \A row \in AggregateRows : \A f \in ScoreFields :
            (\A i \in MembersOf(row) : ~IsNaN(risk_df[i][f])) =>
                row[f] = PopulationWeightedMean(risk_df, f, MembersOf(row))

\* C15: when the total population of a region group is 0 the run does not
\* fail and the group's aggregate carries the unweighted mean of the members'
\* compound risk scores, not a missing value.
C15_ZeroPopulationFallback ==
    pc \in {"done", "failed"} =>
        \A k \in Range(RegionGroups) :
            (Members(risk_df, k) # {} /\ WeightsSumToZero(risk_df, Members(risk_df, k))) =>
                /\ error.type # "ZeroDivisionError"
                /\ \E row \in Range(region_agg) :
                      /\ row["country"] = k.country /\ row["region"] = k.region
                      /\ row["compound_risk_score"] =
                            GroupMean(risk_df, "compound_risk_score", Members(risk_df, k))

(***************************************************************************)
(* Properties of a whole run.                                              *)
(***************************************************************************)
\* C16: a run that ends in an error, at whatever stage, has written no output
\* file: the files on disk are none of them or all of them.
C16_NoPartialOutput ==
    /\ pc = "failed" => written = <<>>
    /\ written \in {<<>>, OutputFiles}

\* C17: a run goes on to a fused table, to scoring or to writing only if no
\* processor, of a required or of an optional source, was left with zero rows.
C17_EmptySourceIsFatal ==
    pc \in {"fused", "scored", "done"} => \A src \in Sources : processed[src] # <<>>

AbsentSources == {src \in Sources : raw_files[src] = ABSENT}

\* C18: when a source file is absent, the run fails in the loader with the
\* error for a missing file, naming an absent source, and nothing has been
\* loaded, processed, fused, scored or written.
C18_MissingSourceAborts ==
    (pc # "start" /\ AbsentSources # {}) =>
        /\ pc = "failed"
        /\ error.type = "FileNotFoundError"
        /\ error.source \in AbsentSources
        /\ datasets = <<>>
        /\ processed = EmptyProcessed
        /\ master = <<>>
        /\ risk_df = <<>>
        /\ written = <<>>
        /\ country_agg = <<>> /\ region_agg = <<>>

\* a run that failed on an absent poverty file although the four files read
\* before it were there and well formed
C18_Witness ==
    /\ pc = "failed"
    /\ error.type = "FileNotFoundError"
    /\ AbsentSources = {"poverty"}
    /\ \A src \in Sources \ {"poverty"} : raw_files[src] = GoodFile[src]

SourcesLackingColumns ==
    {src \in Sources : raw_files[src] # ABSENT /\ MissingColumns(src, raw_files[src]) # {}}

\* C19: when every file is there and a loaded table lacks a geographic key
\* column or the value column, the run fails with an error that names such a
\* source and its missing columns, and no table has been processed.
C19_SchemaErrorNamesSource ==
    (pc # "start" /\ AbsentSources = {} /\ SourcesLackingColumns # {}) =>
        /\ pc = "failed"
        /\ error.source \in SourcesLackingColumns
        /\ error.columns = MissingColumns(error.source, raw_files[error.source])
        /\ processed = EmptyProcessed

(***************************************************************************)
(* Properties of the aggregates as a whole.                                *)
(***************************************************************************)
Permutations(n) == {p \in [1..n -> 1..n] : \A i, j \in 1..n : p[i] = p[j] => i = j}

\* the rows of t in the order p
Permuted(t, p) == [i \in DOMAIN t |-> t[p[i]]]

\* C21: the aggregator run on any permutation of the rows of the scored table
\* (the identity included: a second run) fails exactly when the first run
\* failed, and otherwise gives the region and country aggregates of the
\* first run.
C21_AggregationOrderIndependent ==
    \A p \in Permutations(Len(risk_df)) :
        /\ pc = "scored" =>
              aggregation_raises(Permuted(risk_df, p)) = aggregation_raises(risk_df)
        /\ pc = "done" =>
              /\ region_aggregation(Permuted(risk_df, p)) = region_agg
              /\ country_aggregation(Permuted(risk_df, p)) = country_agg

\* aggregates written for a region whose two sub-regions differ in water
\* stress and in population
C21_Witness ==
    /\ pc = "done"
    /\ Len(risk_df) = 2
    /\ Len(region_agg) = 1
    /\ risk_df[1]["hazard_water_stress"] = Zero /\ risk_df[2]["hazard_water_stress"] = One
    /\ risk_df[1]["population_total"] # risk_df[2]["population_total"]

RegionKeysOf(t) == {<<t[i]["country"], t[i]["region"]>> : i \in DOMAIN t}

CountryKeysOf(t) == {t[i]["country"] : i \in DOMAIN t}

\* the total of column col over the rows I of t
RECURSIVE TotalOf(_, _, _)
TotalOf(t, col, I) ==
    IF I = {} THEN Zero
    ELSE LET i == CHOOSE x \in I : TRUE
         IN  RAdd(t[i][col], TotalOf(t, col, I \ {i}))

\* C22: the region table has exactly one row for every (country, region) of
\* the scored master table, the country table exactly one row for every
\* country, and the population and the agricultural value of each row are the
\* sums over the master records of its group.
C22_OneRowPerGroupWithSums ==
    pc = "done" =>
        /\ RegionKeysOf(region_agg) = RegionKeysOf(risk_df)
        /\ Len(region_agg) = Cardinality(RegionKeysOf(risk_df))
        /\ CountryKeysOf(country_agg) = CountryKeysOf(risk_df)
        /\ Len(country_agg) = Cardinality(CountryKeysOf(risk_df))
        /\ \A row \in AggregateRows : \A col \in SumColumns :
              row[col] = TotalOf(risk_df, col, MembersOf(row))

\* aggregates of a country with two regions
C22_Witness ==
    /\ pc = "done"
    /\ Len(region_agg) = 2
    /\ Len(country_agg) = 1
    /\ country_agg[1]["population_total"] = Int2Rat(4)

(***************************************************************************)
(* Properties of the population join.                                      *)
(***************************************************************************)
\* the rows of the processed population table with the GeoKey of row l
PopulationRows(l) ==
    {r \in DOMAIN processed.population : SameKey(l, processed.population[r])}

\* every row of the table before the join is, with all its cells, in the
\* table after it
KeepsCoreRows ==
    \A i \in DOMAIN master : \E j \in DOMAIN master' :
        \A c \in DOMAIN master[i] : master'[j][c] = master[i][c]

\* C23 as stated: the left join with the population source keeps every row of
\* the core inner joins, and after the fill every master row has a population
\* that is not missing: 0 where the source has no row for the GeoKey, the
\* source's value otherwise.
C23_PopulationLeftJoinAsStated ==
    [][JoinPopulation =>
        /\ KeepsCoreRows
        /\ \A j \in DOMAIN master' :
              /\ ~IsNaN(master'[j]["population_total"])
              /\ IF PopulationRows(master'[j]) = {}
                 THEN master'[j]["population_total"] = Zero
                 ELSE \E r \in PopulationRows(master'[j]) :
                         master'[j]["population_total"] =
                             processed.population[r]["population_total"]]_vars

\* C23: the left join with the population source keeps every row of the core
\* inner joins, and after the fill every master row has a population that is
\* not missing: 0 where the source has no row for the GeoKey or a row with a
\* missing value, the source's value otherwise.
C23_PopulationLeftJoin ==
    [][JoinPopulation =>
        /\ KeepsCoreRows
        /\ \A j \in DOMAIN master' :
              /\ ~IsNaN(master'[j]["population_total"])
              /\ IF PopulationRows(master'[j]) = {}
                 THEN master'[j]["population_total"] = Zero
                 ELSE \E r \in PopulationRows(master'[j]) :
                         master'[j]["population_total"] =
                             IF IsNaN(processed.population[r]["population_total"])
                             THEN Zero
                             ELSE processed.population[r]["population_total"]]_vars

\* after the join: a row whose GeoKey the population source does not have, a
\* row whose population is missing in the source, and a row with a population
C23_Witness ==
    /\ pc = "joined_population"
    /\ \E i \in DOMAIN master :
          PopulationRows(master[i]) = {} /\ master[i]["population_total"] = Zero
    /\ \E i \in DOMAIN master : \E r \in PopulationRows(master[i]) :
          /\ IsNaN(processed.population[r]["population_total"])
          /\ master[i]["population_total"] = Zero
    /\ \E i \in DOMAIN master : master[i]["population_total"] # Zero

(***************************************************************************)
(* Properties of the scenario selection.                                   *)
(***************************************************************************)
\* the position in t of the first row of scenario sc
FirstSeen(t, sc) ==
    CHOOSE i \in DOMAIN t : t[i]["scenario"] = sc /\ \A j \in 1..(i - 1) : t[j]["scenario"] # sc

\* the most frequent scenario of t, the first seen of those equally frequent
FirstSeenMode(t) ==
    CHOOSE sc \in Range(Col(t, "scenario")) :
        \A other \in Range(Col(t, "scenario")) :
            \/ CountOf(t, other) < CountOf(t, sc)
            \/ CountOf(t, other) = CountOf(t, sc) /\ FirstSeen(t, sc) <= FirstSeen(t, other)

\* the rows of the file df that the fallback of source src is to keep: those
\* of the fallback scenario (for NDWS, of the configured timeframe)
FallbackRows(src) ==
    LET Keep(r) == /\ r["scenario"] = FirstSeenMode(df)
                   /\ src = "ndws" => r["timeframe"] = "2041_2060"
    IN  SelectSeq(df, Keep)

\* C24: a source that has scenarios but not ssp245 is processed to exactly the
\* rows of its most frequent scenario, the first seen among equally frequent
\* ones.
C24_ScenarioFallback ==
    (/\ pc = "processed"
     /\ source \in {"ndws", "population"}
     /\ df # <<>>
     /\ "scenario" \in Columns(df)
     /\ "ssp245" \notin Range(Col(df, "scenario"))) =>
        processed[source] = SelectAndRename(FallbackRows(source), ValueColumn[source])

\* the present values of scenario sc in t, and its rows
PresentCount(t, sc) ==
    Cardinality({i \in DOMAIN t : t[i]["scenario"] = sc /\ ~IsNaN(t[i]["value"])})

\* scenario a has a larger fraction of present values than scenario b
MoreComplete(t, a, b) == PresentCount(t, a) * CountOf(t, b) > PresentCount(t, b) * CountOf(t, a)

ScenarioRowsOf(t, sc) ==
    LET Keep(r) == r["scenario"] = sc
    IN  SelectSeq(t, Keep)

\* C25: a poverty file with scenarios, none of them baseline or historic, is
\* processed to exactly the rows of one scenario: no scenario has a larger
\* fraction of present values, and every scenario seen before it has a
\* smaller one.
C25_MostCompleteScenario ==
    (/\ pc = "processed"
     /\ source = "poverty"
     /\ df # <<>>
     /\ "scenario" \in Columns(df)
     /\ Range(Col(df, "scenario")) \cap {"baseline", "historic"} = {}) =>
        \E sc \in Range(Col(df, "scenario")) :
            /\ \A other \in Range(Col(df, "scenario")) :
                  /\ ~MoreComplete(df, other, sc)
                  /\ FirstSeen(df, other) < FirstSeen(df, sc) => MoreComplete(df, sc, other)
            /\ processed.poverty = SelectAndRename(ScenarioRowsOf(df, sc), "poverty_headcount_ratio")

\* a processed poverty file with two equally complete scenarios, of which
\* the first seen, the one with fewer rows, is kept
C25_Witness ==
    /\ pc = "processed"
    /\ source = "poverty"
    /\ Len(df) = 3
    /\ "scenario" \in Columns(df)
    /\ df[1]["scenario"] = "ssp585" /\ df[2]["scenario"] = "ssp245" /\ df[3]["scenario"] = "ssp245"
    /\ ~IsNaN(df[1]["value"]) /\ ~IsNaN(df[2]["value"]) /\ ~IsNaN(df[3]["value"])
    /\ Len(processed.poverty) = 1

(***************************************************************************)
(* Properties of the soil health analyzer.                                 *)
(***************************************************************************)
\* the class the thresholds 0.25 / 0.5 / 0.75, closed on the left, give
ClosedLeftClass(x) ==
    CASE RLt(x, Rat(1, 4)) -> 1
      [] RLe(Rat(1, 4), x) /\ RLt(x, Rat(1, 2)) -> 2
      [] RLe(Rat(1, 2), x) /\ RLt(x, Rat(3, 4)) -> 3
      [] OTHER -> 4

\* C26: every pixel whose risk index is in [0, 1] gets the class in 1..4 of
\* the closed-left thresholds 0.25 / 0.5 / 0.75, never class 0.
C26_RiskLevelsClosedLeft ==
    pc = "risk_classified" =>
        /\ Len(risk_classes) = Len(risk_index)
        /\ \A i \in DOMAIN risk_index :
              (RLe(Zero, risk_index[i]) /\ RLe(risk_index[i], One)) =>
                  /\ risk_classes[i] \in 1..4
                  /\ risk_classes[i] = ClosedLeftClass(risk_index[i])

\* a classified raster with a pixel on the threshold 0.25 and one on 0.75
C26_Witness ==
    /\ pc = "risk_classified"
    /\ Len(risk_index) = 2
    /\ risk_index[1] = Rat(1, 4) /\ risk_classes[1] = 2
    /\ risk_index[2] = Rat(3, 4) /\ risk_classes[2] = 4

\* C27: every pixel of the pH risk raster, pixels without data included, is
\* in [0, 1], and a pixel with a lower pH never has a lower risk than a pixel
\* with a higher pH.
C27_PhRiskInUnitIntervalAndMonotone ==
    pc = "ph_classified" =>
        /\ Len(ph_risk) = Len(ph_data)
        /\ \A i \in DOMAIN ph_risk : RLe(Zero, ph_risk[i]) /\ RLe(ph_risk[i], One)
        /\ \A i, j \in DOMAIN ph_data :
              RLe(ph_data[i], ph_data[j]) => RLe(ph_risk[j], ph_risk[i])

(***************************************************************************)
(* Frame of the imputation.                                                *)
(***************************************************************************)
\* C28: the imputation leaves every poverty value that was present as it
\* was, leaves every other column of every row as it was, adds only the
\* column poverty_imputed, and neither adds, removes nor reorders rows.
C28_ImputationFrame ==
    [][ImputePoverty =>
        /\ Len(master') = Len(master)
        /\ \A i \in DOMAIN master :
              /\ DOMAIN master'[i] = DOMAIN master[i] \cup {"poverty_imputed"}
              /\ \A c \in DOMAIN master[i] \ {"poverty_headcount_ratio", "poverty_imputed"} :
                    master'[i][c] = master[i][c]
              /\ ~IsNaN(master[i]["poverty_headcount_ratio"]) =>
                    master'[i]["poverty_headcount_ratio"] = master[i]["poverty_headcount_ratio"]]_vars

\* an imputed table with a filled row next to rows that kept their own,
\* different, poverty values
C28_Witness ==
    /\ pc = "fused"
    /\ \E i, j, k \in DOMAIN master :
          /\ master[i]["poverty_imputed"]
          /\ ~master[j]["poverty_imputed"] /\ master[j]["poverty_headcount_ratio"] = Zero
          /\ ~master[k]["poverty_imputed"] /\ master[k]["poverty_headcount_ratio"] = One

(***************************************************************************)
(* Idempotence of the risk scorer.                                         *)
(***************************************************************************)
\* C30: calculate_risk_scores applied to the table it returned gives that
\* table again: the same hazard, vulnerability and compound-risk columns and
\* the same risk categories, with hazard_score_composite now among the
\* hazard_ columns that are averaged.
C30_ScoringIdempotent ==
    pc = "scored" =>
        /\ "hazard_score_composite" \in Columns(risk_df)
        /\ \A i \in DOMAIN risk_df : \A c \in ScoreColumns :
              calculate_risk_scores(risk_df)[i][c] = risk_df[i][c]

\* a scored table with a row whose two hazard indicators differ, so that its
\* hazard composite is a third value among the hazard_ columns, and with a
\* compound risk above 0
C30_Witness ==
    /\ pc = "scored"
    /\ \E j \in DOMAIN risk_df :
          /\ ~IsNaN(risk_df[j]["hazard_water_stress"])
          /\ ~IsNaN(risk_df[j]["hazard_erosion_risk"])
          /\ risk_df[j]["hazard_water_stress"] # risk_df[j]["hazard_erosion_risk"]
          /\ RLt(Zero, risk_df[j]["compound_risk_score"])

(***************************************************************************)
(* Conservation of the totals in the aggregates.                           *)
(***************************************************************************)
AllRows(t) == DOMAIN t

\* C29: the population and the agricultural value summed over the rows of the
\* country table, and over the rows of the region table, are the sums over
\* all master records.
C29_AggregatesConserveTotals ==
    pc = "done" =>
        \A col \in SumColumns :
            /\ TotalOf(country_agg, col, AllRows(country_agg)) = TotalOf(master, col, AllRows(master))
            /\ TotalOf(region_agg, col, AllRows(region_agg)) = TotalOf(master, col, AllRows(master))

\* a finished run over files that each have a row without a region name:
\* three master records in two countries
C29_Witness ==
    /\ pc = "done"
    /\ \A src \in Sources : raw_files[src] = MixedFile[src]
    /\ Len(master) = 3
    /\ Len(country_agg) = 2
    /\ Len(region_agg) = 2

=============================================================================
